---- MODULE Spec2Model ----
(***************************************************************************)
(* PostgreSQL -> SQL Server migration tool (src/migrator.py).              *)
(*                                                                         *)
(* The module models migrate() as a sequential program that sends          *)
(* statements to a source cursor (pg) and a target cursor (sql), together  *)
(* with the pure helpers it uses (map_pg_type, the DDL builders).  The two *)
(* database engines are modelled by what they do with the statements the   *)
(* program sends: the source answers catalog and data queries from a fixed *)
(* database, the target applies DDL and inserts to its schema and rows.    *)
(*                                                                         *)
(* Three specifications share the definitions:                             *)
(*   Spec     one run of migrate() against an empty target database;       *)
(*   SpecMap  map_pg_type applied to drawn column descriptors;             *)
(*   SpecDDL  create_table / create_indexes called repeatedly with one     *)
(*            descriptor set against the same target.                      *)
(***************************************************************************)
EXTENDS Integers, Sequences, FiniteSets, TLC

\* ------------------------------------------------------------------ bounds
\* Largest number of rows a source table holds.
MaxRows == 4
\* Largest configured batch_size (config.json; a positive integer).
MaxBatch == 3
\* Largest numeric precision drawn for map_pg_type.
MaxPrecision == 38
\* Largest number of calls of each DDL function in SpecDDL.
MaxCalls == 2

VARIABLES
    BATCH_SIZE,   \* CFG["batch_size"]
    srcdb,        \* the source database: tables present, foreign keys, rows per table
    pc,           \* position of migrate() (or of the caller in SpecMap / SpecDDL)
    tables,       \* migrate(): result of get_tables
    ti,           \* migrate(): index of the current table in tables
    cols,         \* migrate(): result of get_columns for the current table
    pk,           \* migrate(): result of get_primary_key
    indexes,      \* migrate(): result of get_indexes
    fks,          \* migrate(): result of get_foreign_keys
    k,            \* loop index inside create_indexes / create_foreign_keys
    total,        \* copy_data: result of the COUNT(*) query
    fetched,      \* the pg cursor: rows of the open result set already fetched
    batch,        \* copy_data: the batch returned by the last fetchmany
    copied,       \* copy_data: the copied counter
    tgt,          \* the target database: schemas, tables, rows, indexes, foreign keys
    log,          \* every statement sent to pg or sql so far, in order
    err,          \* the exception that ended the run ("" while none)
    call          \* SpecMap / SpecDDL: the arguments and result of the last call

vars == <<BATCH_SIZE, srcdb, pc, tables, ti, cols, pk, indexes, fks, k, total,
          fetched, batch, copied, tgt, log, err, call>>

\* ------------------------------------------------------------ python values
\* Python's None and an optional integer: <<>> is None, <<v>> is the value v.
None == <<>>
Some(v) == <<v>>
\* Python truthiness of an optional integer: None and 0 are falsy.
Truthy(x) == x # None /\ x[1] # 0
\* Python's  x or d  on an optional integer.
OrDefault(x, d) == IF Truthy(x) THEN x[1] ELSE d

\* ------------------------------------------------------------------- text
\* Text the program searches or slices is a sequence of characters.
UpperAlpha == <<"A","B","C","D","E","F","G","H","I","J","K","L","M",
                "N","O","P","Q","R","S","T","U","V","W","X","Y","Z">>
LowerAlpha == <<"a","b","c","d","e","f","g","h","i","j","k","l","m",
                "n","o","p","q","r","s","t","u","v","w","x","y","z">>
LowerChar(c) ==
    IF \E i \in 1..26 : UpperAlpha[i] = c
    THEN LowerAlpha[CHOOSE i \in 1..26 : UpperAlpha[i] = c]
    ELSE c
\* str.lower()
StrLower(s) == [i \in 1..Len(s) |-> LowerChar(s[i])]
\* sub in s
Contains(s, sub) ==
    \E i \in 1..(Len(s) - Len(sub) + 1) : SubSeq(s, i, i + Len(sub) - 1) = sub
\* s.startswith(prefix)
StartsWith(s, prefix) ==
    Len(s) >= Len(prefix) /\ SubSeq(s, 1, Len(prefix)) = prefix
\* s.index(c): the 0-based position of the first c (the caller ensures there is one).
IndexOf(s, c) == (CHOOSE i \in 1..Len(s) : s[i] = c /\ \A j \in 1..(i-1) : s[j] # c) - 1
\* s[start:end] with 0-based, end-exclusive bounds.
Slice(s, start, end) == SubSeq(s, start + 1, end)
\* s.replace(c, "") for a single character c.
RECURSIVE RemoveChar(_, _)
RemoveChar(s, c) ==
    IF s = <<>> THEN <<>>
    ELSE IF Head(s) = c THEN RemoveChar(Tail(s), c)
    ELSE <<Head(s)>> \o RemoveChar(Tail(s), c)
\* s.split(c): the pieces between the occurrences of c.
RECURSIVE SplitOn(_, _)
SplitOn(s, c) ==
    IF \A i \in 1..Len(s) : s[i] # c THEN <<s>>
    ELSE LET p == IndexOf(s, c)
         IN  <<Slice(s, 0, p)>> \o SplitOn(SubSeq(s, p + 2, Len(s)), c)
\* s.strip(): leading and trailing blanks removed.
RECURSIVE LStrip(_)
LStrip(s) == IF s # <<>> /\ Head(s) = " " THEN LStrip(Tail(s)) ELSE s
RECURSIVE RStrip(_)
RStrip(s) ==
    IF s # <<>> /\ s[Len(s)] = " " THEN RStrip(SubSeq(s, 1, Len(s) - 1)) ELSE s
Strip(s) == RStrip(LStrip(s))
\* sep.join(ss) for texts.
RECURSIVE JoinText(_, _)
JoinText(ss, sep) ==
    IF ss = <<>> THEN <<>>
    ELSE IF Len(ss) = 1 THEN ss[1]
    ELSE ss[1] \o sep \o JoinText(Tail(ss), sep)
\* sep.join(ss) for strings.
RECURSIVE JoinStr(_, _)
JoinStr(ss, sep) ==
    IF ss = <<>> THEN ""
    ELSE IF Len(ss) = 1 THEN ss[1]
    ELSE ss[1] \o sep \o JoinStr(Tail(ss), sep)

\* ----------------------------------------------------------- type mapping
\* The type names the catalog can deliver, with their lower-case forms.
PgTypes == {"integer", "int4", "bigint", "int8", "smallint", "boolean", "date",
            "timestamp without time zone", "timestamp with time zone",
            "double precision", "real", "character varying", "text",
            "numeric", "decimal", "NUMERIC", "Decimal", "uuid"}
\* pg_type.lower()
LowerType(t) ==
    CASE t = "NUMERIC" -> "numeric"
      [] t = "Decimal" -> "decimal"
      [] OTHER -> t

\* The exact-match table of map_pg_type.
mapping == [t \in {"integer", "int4", "bigint", "int8", "smallint", "boolean", "date",
                   "timestamp without time zone", "timestamp with time zone",
                   "double precision", "real"} |->
            CASE t \in {"integer", "int4"} -> "INT"
              [] t \in {"bigint", "int8"} -> "BIGINT"
              [] t = "smallint" -> "SMALLINT"
              [] t = "boolean" -> "BIT"
              [] t = "date" -> "DATE"
              [] t \in {"timestamp without time zone", "timestamp with time zone"} -> "DATETIME2"
              [] t = "double precision" -> "FLOAT"
              [] t = "real" -> "REAL"]

\* f"DECIMAL({precision},{scale})"
DecimalText(p, s) == "DECIMAL(" \o ToString(p) \o "," \o ToString(s) \o ")"

\* The two arguments of the DECIMAL type:  precision or 18,  scale or 4.
DecimalArgs(precision, scale) == <<OrDefault(precision, 18), OrDefault(scale, 4)>>

map_pg_type(pg_type, length, precision, scale, is_serial) ==
    LET t == LowerType(pg_type) IN
    IF is_serial THEN "INT IDENTITY(1,1)"
    ELSE IF t \in DOMAIN mapping THEN mapping[t]
    ELSE IF t = "character varying" THEN
        IF ~Truthy(length) \/ length[1] > 4000 THEN "NVARCHAR(MAX)"
        ELSE "NVARCHAR(" \o ToString(length[1]) \o ")"
    ELSE IF t = "text" THEN "NVARCHAR(MAX)"
    ELSE IF t \in {"numeric", "decimal"} THEN
        DecimalText(DecimalArgs(precision, scale)[1], DecimalArgs(precision, scale)[2])
    ELSE "NVARCHAR(MAX)"

\* ------------------------------------------------------- the source database
\* Table identities are <<schema, name>>.
TUsers == <<"public", "users">>
TOrders == <<"public", "orders">>
TZlog == <<"audit", "zlog">>
TVisits == <<"public", "visits">>
\* The tables a source database of Spec may hold.
Universe == {TUsers, TOrders, TZlog}
\* CFG["schemas"]
SCHEMAS == {"audit", "public"}

\* Every identifier of the source databases, and its characters.
Names == {"public", "audit", "staging", "users", "orders", "zlog", "visits", "v_orders", "tmp", "users_pkey", "orders_pkey", "zlog_pkey", "visits_pkey", "idx_orders_user", "idx_unique_visitors", "uq_visits_day", "visits_key_idx", "id", "email", "created_at", "user_id", "log_id", "parent_id", "amount", "order_id", "msg", "visitor", "Day", "unique_key"}
Chars(n) ==
    CASE n = "public" -> <<"p","u","b","l","i","c">>
      [] n = "audit" -> <<"a","u","d","i","t">>
      [] n = "staging" -> <<"s","t","a","g","i","n","g">>
      [] n = "users" -> <<"u","s","e","r","s">>
      [] n = "orders" -> <<"o","r","d","e","r","s">>
      [] n = "zlog" -> <<"z","l","o","g">>
      [] n = "visits" -> <<"v","i","s","i","t","s">>
      [] n = "v_orders" -> <<"v","_","o","r","d","e","r","s">>
      [] n = "tmp" -> <<"t","m","p">>
      [] n = "users_pkey" -> <<"u","s","e","r","s","_","p","k","e","y">>
      [] n = "orders_pkey" -> <<"o","r","d","e","r","s","_","p","k","e","y">>
      [] n = "zlog_pkey" -> <<"z","l","o","g","_","p","k","e","y">>
      [] n = "visits_pkey" -> <<"v","i","s","i","t","s","_","p","k","e","y">>
      [] n = "idx_orders_user" -> <<"i","d","x","_","o","r","d","e","r","s","_","u","s","e","r">>
      [] n = "idx_unique_visitors" -> <<"i","d","x","_","u","n","i","q","u","e","_","v","i","s","i","t","o","r","s">>
      [] n = "uq_visits_day" -> <<"u","q","_","v","i","s","i","t","s","_","d","a","y">>
      [] n = "visits_key_idx" -> <<"v","i","s","i","t","s","_","k","e","y","_","i","d","x">>
      [] n = "id" -> <<"i","d">>
      [] n = "email" -> <<"e","m","a","i","l">>
      [] n = "created_at" -> <<"c","r","e","a","t","e","d","_","a","t">>
      [] n = "user_id" -> <<"u","s","e","r","_","i","d">>
      [] n = "log_id" -> <<"l","o","g","_","i","d">>
      [] n = "parent_id" -> <<"p","a","r","e","n","t","_","i","d">>
      [] n = "amount" -> <<"a","m","o","u","n","t">>
      [] n = "order_id" -> <<"o","r","d","e","r","_","i","d">>
      [] n = "msg" -> <<"m","s","g">>
      [] n = "visitor" -> <<"v","i","s","i","t","o","r">>
      [] n = "Day" -> <<"D","a","y">>
      [] n = "unique_key" -> <<"u","n","i","q","u","e","_","k","e","y">>
\* The identifier a text spells ("?" when it spells none: such a name exists nowhere).
Ident(text) ==
    IF \E n \in Names : Chars(n) = text
    THEN CHOOSE n \in Names : Chars(n) = text
    ELSE "?"
\* The position of a name in the source's collation (ORDER BY on names).
Collate(n) ==
    CASE n = "audit" -> 1 [] n = "orders" -> 2 [] n = "public" -> 3
      [] n = "staging" -> 4 [] n = "tmp" -> 5 [] n = "users" -> 6
      [] n = "v_orders" -> 7 [] n = "visits" -> 8 [] n = "zlog" -> 9

\* information_schema.columns: the rows of a table, in ordinal position:
\* <<column_name, data_type, is_nullable, character_maximum_length,
\*   numeric_precision, numeric_scale, column_default>>.
NextvalDefault(t) ==
    <<"n","e","x","t","v","a","l","(","'">> \o Chars(t[2]) \o
    <<"_","i","d","_","s","e","q","'",":",":","r","e","g","c","l","a","s","s",")">>
IntCol(n, nullable) == <<n, "integer", nullable, None, Some(32), Some(0), None>>
ColumnRows(t) ==
    CASE t = TUsers ->
           << <<"id", "integer", "NO", None, Some(32), Some(0), NextvalDefault(t)>>,
              <<"email", "character varying", "NO", Some(255), None, None, None>>,
              <<"created_at", "timestamp without time zone", "YES", None, None, None, None>> >>
      [] t = TOrders ->
           << IntCol("id", "NO"), IntCol("user_id", "YES"), IntCol("log_id", "YES"),
              IntCol("parent_id", "YES"),
              <<"amount", "numeric", "YES", None, Some(10), Some(2), None>> >>
      [] t = TZlog ->
           << <<"id", "bigint", "NO", None, Some(64), Some(0), None>>,
              IntCol("order_id", "YES"),
              <<"msg", "text", "YES", None, None, None, None>> >>
      [] t = TVisits ->
           << IntCol("id", "NO"), IntCol("visitor", "YES"),
              <<"Day", "date", "YES", None, None, None, None>>,
              IntCol("unique_key", "YES") >>

\* The primary key columns of a table, in ordinal position.
PrimaryKeyRows(t) == <<"id">>

\* The indexes of a table as the source engine holds them.
Index(n, u, c) == [indexname |-> n, unique |-> u, columns |-> c]
SourceIndexes(t) ==
    CASE t = TUsers  -> {Index("users_pkey", TRUE, <<"id">>)}
      [] t = TOrders -> {Index("orders_pkey", TRUE, <<"id">>),
                         Index("idx_orders_user", FALSE, <<"user_id", "log_id">>)}
      [] t = TZlog   -> {Index("zlog_pkey", TRUE, <<"id">>)}
      [] t = TVisits -> {Index("visits_pkey", TRUE, <<"id">>),
                         Index("idx_unique_visitors", FALSE, <<"visitor">>),
                         Index("uq_visits_day", TRUE, <<"Day">>),
                         Index("visits_key_idx", FALSE, <<"unique_key", "Day">>)}

\* An identifier as the source engine prints it: quoted unless all lower case.
QuoteIdent(n) ==
    IF StrLower(Chars(n)) = Chars(n) THEN Chars(n)
    ELSE <<"\"">> \o Chars(n) \o <<"\"">>
\* pg_indexes.indexdef of an index of table t.
IndexDef(t, ix) ==
    <<"C","R","E","A","T","E"," ">> \o
    (IF ix.unique THEN <<"U","N","I","Q","U","E"," ">> ELSE <<>>) \o
    <<"I","N","D","E","X"," ">> \o QuoteIdent(ix.indexname) \o <<" ","O","N"," ">> \o
    QuoteIdent(t[1]) \o <<".">> \o QuoteIdent(t[2]) \o
    <<" ","U","S","I","N","G"," ","b","t","r","e","e"," ","(">> \o
    JoinText([i \in 1..Len(ix.columns) |-> QuoteIdent(ix.columns[i])], <<","," ">>) \o
    <<")">>

\* The foreign keys a source database may declare (single-column).
Fk(n, t, c, r) ==
    [constraint_name |-> n, table |-> t, column_name |-> c, ref |-> r,
     foreign_column_name |-> "id"]
FkCandidates ==
    {Fk("orders_user_id_fkey", TOrders, "user_id", TUsers),
     Fk("orders_log_id_fkey", TOrders, "log_id", TZlog),
     Fk("orders_parent_id_fkey", TOrders, "parent_id", TOrders),
     Fk("zlog_order_id_fkey", TZlog, "order_id", TOrders)}

\* Row i of table t: a value for each column.  Keys and plain columns hold
\* distinct values; a referencing column holds 0, which stands for NULL.
SourceRow(t, i) ==
    LET cr == ColumnRows(t)
    IN  [c \in {cr[j][1] : j \in 1..Len(cr)} |->
            IF c \in {f.column_name : f \in {g \in FkCandidates : g.table = t}}
            THEN 0
            ELSE 10 * i + (CHOOSE j \in 1..Len(cr) : cr[j][1] = c)]
\* The rows of table t in a database where every table holds n rows.
SourceRows(t, n) == [i \in 1..n |-> SourceRow(t, i)]

\* The source databases of Spec: any tables of the universe, any of the foreign
\* keys between tables that are present, the same number of rows in each table.
SourceDatabases ==
    {[tables |-> S, fks |-> F, nrows |-> n] :
        S \in SUBSET Universe,
        F \in SUBSET FkCandidates,
        n \in 0..MaxRows}
WellFormed(db) == \A f \in db.fks : f.table \in db.tables /\ f.ref \in db.tables

\* information_schema.tables of a source database: its tables, one view and one
\* table of a schema outside CFG["schemas"].
InfoSchemaTables(db) ==
    {[table_schema |-> t[1], table_name |-> t[2], table_type |-> "BASE TABLE"] :
        t \in db.tables}
    \cup {[table_schema |-> "public", table_name |-> "v_orders", table_type |-> "VIEW"],
          [table_schema |-> "staging", table_name |-> "tmp", table_type |-> "BASE TABLE"]}

\* All orderings of a finite set as sequences.
Orderings(S) ==
    {s \in [1..Cardinality(S) -> S] : \A i, j \in 1..Cardinality(S) : i # j => s[i] # s[j]}
\* ORDER BY table_schema, table_name
ListedBefore(a, b) ==
    \/ Collate(a[1]) < Collate(b[1])
    \/ (a[1] = b[1] /\ Collate(a[2]) < Collate(b[2]))
SortedBySchemaName(S) ==
    CHOOSE s \in Orderings(S) :
        \A i, j \in 1..Len(s) : i < j => ListedBefore(s[i], s[j])

\* --------------------------------------------------------- metadata functions
\* The configured base tables with the listing ordered by table name alone.
SortedByName(S) ==
    CHOOSE s \in Orderings(S) :
        \A i, j \in 1..Len(s) : i < j => Collate(s[i][2]) <= Collate(s[j][2])
get_tables_by_name(db) ==
    SortedByName({<<r.table_schema, r.table_name>> :
        r \in {x \in InfoSchemaTables(db) :
                 x.table_schema \in SCHEMAS /\ x.table_type = "BASE TABLE"}})
\* The configured base tables listed so that a referenced table comes first
\* (here: the listing reversed).
get_tables_referenced_first(db) ==
    LET s == SortedBySchemaName({<<r.table_schema, r.table_name>> :
                r \in {x \in InfoSchemaTables(db) :
                         x.table_schema \in SCHEMAS /\ x.table_type = "BASE TABLE"}})
    IN  [i \in 1..Len(s) |-> s[Len(s) + 1 - i]]
\* get_tables: the base tables of the configured schemas, by schema then name.
get_tables(db) ==
    SortedBySchemaName({<<r.table_schema, r.table_name>> :
        r \in {x \in InfoSchemaTables(db) :
                 x.table_schema \in SCHEMAS /\ x.table_type = "BASE TABLE"}})

\* get_columns: one descriptor per row; is_serial from the default's text.
Column(row) ==
    [name |-> row[1], data_type |-> row[2], nullable |-> (row[3] = "YES"),
     length |-> row[4], precision |-> row[5], scale |-> row[6],
     is_serial |-> (row[7] # <<>> /\ StartsWith(row[7], <<"n","e","x","t","v","a","l">>))]
get_columns(t) == [i \in 1..Len(ColumnRows(t)) |-> Column(ColumnRows(t)[i])]

\* get_primary_key
get_primary_key(t) == PrimaryKeyRows(t)

\* get_indexes: the <<indexname, indexdef>> rows of pg_indexes, in any order.
get_indexes(t) ==
    Orderings({<<ix.indexname, IndexDef(t, ix)>> : ix \in SourceIndexes(t)})

\* get_foreign_keys: <<constraint_name, column_name, foreign_table_schema,
\* foreign_table_name, foreign_column_name>> rows, in any order.
get_foreign_keys(db, t) ==
    Orderings({<<f.constraint_name, f.column_name, f.ref[1], f.ref[2], f.foreign_column_name>> :
                  f \in {g \in db.fks : g.table = t}})

\* -------------------------------------------------------- the target database
\* Every table a statement of the program can name.
AllTables == Universe \cup {TVisits}
\* A fresh target database.  created is the set of existing user tables;
\* columns, pkey and rows are meaningful for the tables in it.
EmptyTarget ==
    [schemas |-> {"dbo"},
     created |-> {},
     columns |-> [t \in AllTables |-> <<>>],
     pkey    |-> [t \in AllTables |-> [name |-> "", cols |-> <<>>]],
     rows    |-> [t \in AllTables |-> <<>>],
     indexes |-> {},
     fks     |-> {}]
\* The schema of a target database: everything but the rows.
SchemaOf(db) ==
    [schemas |-> db.schemas, created |-> db.created, columns |-> db.columns,
     pkey |-> db.pkey, indexes |-> db.indexes, fks |-> db.fks]
\* The outcome of a statement: the database after it and the error raised ("" if none).
Outcome(db, e) == [db |-> db, err |-> e]

ColumnNames(db, t) == {db.columns[t][i].name : i \in 1..Len(db.columns[t])}
IdentityColumns(db, t) ==
    {db.columns[t][i].name : i \in {j \in 1..Len(db.columns[t]) :
                                       db.columns[t][j].sql_type = "INT IDENTITY(1,1)"}}
\* sys.indexes: the names of the indexes, those backing primary keys included.
SysIndexNames(db) ==
    {ix.name : ix \in db.indexes} \cup {db.pkey[t].name : t \in {u \in db.created : db.pkey[u].name # ""}}
ConstraintNames(db) ==
    {f.name : f \in db.fks} \cup {db.pkey[t].name : t \in {u \in db.created : db.pkey[u].name # ""}}
\* Whether the rows of t hold two rows equal on all the columns cs.
HasDuplicates(db, t, cs) ==
    \E i, j \in 1..Len(db.rows[t]) :
        i < j /\ \A n \in 1..Len(cs) : db.rows[t][i][cs[n]] = db.rows[t][j][cs[n]]
\* Whether column c alone is a key of t (its primary key or a unique index).
IsKey(db, t, c) ==
    \/ db.pkey[t].cols = <<c>>
    \/ \E ix \in db.indexes : ix.t = t /\ ix.unique /\ ix.cols = <<c>>

\* IF NOT EXISTS (SELECT 1 FROM sys.schemas WHERE name=..) EXEC('CREATE SCHEMA [..]')
ExecCreateSchema(db, schema) ==
    Outcome([db EXCEPT !.schemas = @ \cup {schema}], "")

\* The guard of the table DDL without the existence test.
TableIsMissingAlways(db, t) == TRUE
\* OBJECT_ID('schema.table', 'U') IS NULL
TableIsMissing(db, t) == t \notin db.created

\* IF OBJECT_ID(..) IS NULL CREATE TABLE [schema].[table] (col_defs pk_clause)
ExecCreateTable(db, stmt) ==
    LET t == <<stmt.schema, stmt.table>> IN
    IF ~TableIsMissing(db, t) THEN Outcome(db, "")
    ELSE IF t \in db.created THEN Outcome(db, "2714 object already exists")
    ELSE IF stmt.schema \notin db.schemas THEN Outcome(db, "2760 schema does not exist")
    ELSE IF stmt.pk_name # "" /\ stmt.pk_name \in ConstraintNames(db)
         THEN Outcome(db, "2714 object already exists")
    ELSE Outcome([db EXCEPT !.created = @ \cup {t},
                            !.columns[t] = stmt.col_defs,
                            !.pkey[t] = [name |-> stmt.pk_name, cols |-> stmt.pk_cols],
                            !.rows[t] = <<>>], "")

\* One INSERT INTO [schema].[table] (columns) VALUES (?, ..) with one row of parameters.
ExecInsertRow(db, t, columns, row) ==
    IF t \notin db.created THEN Outcome(db, "208 invalid object name")
    ELSE IF \E i \in 1..Len(columns) : columns[i] \notin ColumnNames(db, t)
         THEN Outcome(db, "207 invalid column name")
    ELSE IF \E i \in 1..Len(columns) : columns[i] \in IdentityColumns(db, t)
         THEN Outcome(db, "544 explicit value for identity column")
    ELSE LET new == [c \in ColumnNames(db, t) |->
                        IF \E i \in 1..Len(columns) : columns[i] = c
                        THEN row[CHOOSE i \in 1..Len(columns) : columns[i] = c]
                        ELSE 0]
             keys == db.pkey[t].cols
         IN  IF keys # <<>> /\ \E i \in 1..Len(db.rows[t]) :
                    \A n \in 1..Len(keys) : db.rows[t][i][keys[n]] = new[keys[n]]
             THEN Outcome(db, "2627 violation of primary key")
             ELSE Outcome([db EXCEPT !.rows[t] = Append(@, new)], "")

\* executemany: the statement once per row, each in its own transaction
\* (autocommit); the first failing row raises and the rows before it stay.
RECURSIVE ExecInsertMany(_, _, _, _)
ExecInsertMany(db, t, columns, rows) ==
    IF rows = <<>> THEN Outcome(db, "")
    ELSE LET r == ExecInsertRow(db, t, columns, Head(rows))
         IN  IF r.err # "" THEN r ELSE ExecInsertMany(r.db, t, columns, Tail(rows))

\* IF NOT EXISTS (SELECT 1 FROM sys.indexes WHERE name=..)
\* CREATE [UNIQUE] INDEX [index_name] ON [schema].[table] (col_list)
ExecCreateIndex(db, stmt) ==
    LET t == <<stmt.schema, stmt.table>> IN
    IF stmt.index_name \in SysIndexNames(db) THEN Outcome(db, "")
    ELSE IF t \notin db.created THEN Outcome(db, "1088 cannot find the object")
    ELSE IF \E i \in 1..Len(stmt.col_list) : stmt.col_list[i] \notin ColumnNames(db, t)
         THEN Outcome(db, "1911 column does not exist")
    ELSE IF stmt.unique = "UNIQUE" /\ HasDuplicates(db, t, stmt.col_list)
         THEN Outcome(db, "1505 duplicate key")
    ELSE Outcome([db EXCEPT !.indexes = @ \cup
                    {[name |-> stmt.index_name, t |-> t,
                      unique |-> (stmt.unique = "UNIQUE"), cols |-> stmt.col_list]}], "")

\* The target engine resolves the table a foreign key references.
RefTablePresent(db, ref) == ref \in db.created

\* ALTER TABLE [schema].[table] ADD CONSTRAINT [name]
\* FOREIGN KEY ([column]) REFERENCES [ref_schema].[ref_table]([ref_col])
ExecAddForeignKey(db, stmt) ==
    LET t   == <<stmt.schema, stmt.table>>
        ref == <<stmt.ref_schema, stmt.ref_table>>
    IN
    IF t \notin db.created THEN Outcome(db, "4902 cannot find the object")
    ELSE IF ~RefTablePresent(db, ref) THEN Outcome(db, "1767 references invalid table")
    ELSE IF stmt.name \in ConstraintNames(db) THEN Outcome(db, "2714 object already exists")
    ELSE IF stmt.column \notin ColumnNames(db, t) \/ ref \notin db.created
         THEN Outcome(db, "1769 references invalid column")
    ELSE IF ~IsKey(db, ref, stmt.ref_col) THEN Outcome(db, "1776 no key in referenced table")
    ELSE Outcome([db EXCEPT !.fks = @ \cup
                    {[name |-> stmt.name, t |-> t, column |-> stmt.column,
                      ref |-> ref, ref_col |-> stmt.ref_col]}], "")

\* ------------------------------------------------------------ DDL synthesis
\* One entry of col_defs in create_table.
ColDef(c) ==
    [name     |-> c.name,
     sql_type |-> map_pg_type(c.data_type, c.length, c.precision, c.scale, c.is_serial),
     null_str |-> IF c.nullable /\ ~c.is_serial THEN "NULL" ELSE "NOT NULL"]
\* f"[{c['name']}] {sql_type} {null_str}"
ColDefText(d) == "[" \o d.name \o "] " \o d.sql_type \o " " \o d.null_str
\* f"PK_{schema}_{table}"
PkName(schema, table) == "PK_" \o schema \o "_" \o table
\* pk_clause of create_table
PkClause(schema, table, pkcols) ==
    IF pkcols = <<>> THEN ""
    ELSE ", CONSTRAINT [" \o PkName(schema, table) \o "] PRIMARY KEY (" \o
         JoinStr([i \in 1..Len(pkcols) |-> "[" \o pkcols[i] \o "]"], ", ") \o ")"
\* create_sql of create_table.
CreateTableSql(schema, table, columns, pkcols) ==
    [schema    |-> schema,
     table     |-> table,
     col_defs  |-> [i \in 1..Len(columns) |-> ColDef(columns[i])],
     pk_clause |-> PkClause(schema, table, pkcols),
     pk_name   |-> IF pkcols = <<>> THEN "" ELSE PkName(schema, table),
     pk_cols   |-> pkcols]
\* The CREATE TABLE text of create_sql, blanks and line breaks normalised.
CreateTableText(stmt) ==
    "CREATE TABLE [" \o stmt.schema \o "].[" \o stmt.table \o "](" \o
    JoinStr([i \in 1..Len(stmt.col_defs) |-> ColDefText(stmt.col_defs[i])], ", ") \o
    stmt.pk_clause \o ")"

\* The result of a call: the database after it, the error it raised ("" if
\* none) and the statements it sent.
Result(db, e, sent) == [db |-> db, err |-> e, sent |-> sent]

\* create_table(sql, schema, table, columns, pk): both statements, the first
\* error ending the call.
create_table(db, schema, table, columns, pkcols) ==
    LET stmt == CreateTableSql(schema, table, columns, pkcols)
        r1   == ExecCreateSchema(db, schema)
        r2   == ExecCreateTable(r1.db, stmt)
    IN  IF r1.err # "" THEN Result(r1.db, r1.err, <<>>)
        ELSE Result(r2.db, r2.err, <<stmt>>)

\* unique of create_indexes:  "unique" in idxdef.lower()
UniqueKeyword(idxdef) ==
    IF Contains(StrLower(idxdef), <<"u","n","i","q","u","e">>) THEN "UNIQUE" ELSE ""

\* The statement create_indexes builds for one <<name, idxdef>> row.
IndexSql(schema, table, name, idxdef) ==
    LET start == IndexOf(idxdef, "(") + 1
        end   == IndexOf(idxdef, ")")
        parts == SplitOn(RemoveChar(Slice(idxdef, start, end), "\""), ",")
    IN  [unique     |-> UniqueKeyword(idxdef),
         index_name |-> "IX_" \o schema \o "_" \o table \o "_" \o name,
         schema     |-> schema,
         table      |-> table,
         col_list   |-> [i \in 1..Len(parts) |-> Ident(Strip(parts[i]))]]

\* create_indexes(sql, schema, table, indexes): one statement per index, the
\* first error ending the call.
RECURSIVE create_indexes(_, _, _, _)
create_indexes(db, schema, table, idxs) ==
    IF idxs = <<>> THEN Result(db, "", <<>>)
    ELSE LET stmt == IndexSql(schema, table, idxs[1][1], idxs[1][2])
             r    == ExecCreateIndex(db, stmt)
             rest == create_indexes(r.db, schema, table, Tail(idxs))
         IN  IF r.err # "" THEN Result(r.db, r.err, <<stmt>>)
             ELSE Result(rest.db, rest.err, <<stmt>> \o rest.sent)

\* fk_sql of create_foreign_keys for one row of fks.
FkSql(schema, table, fk) ==
    [name       |-> "FK_" \o schema \o "_" \o table \o "_" \o fk[1],
     schema     |-> schema,
     table      |-> table,
     column     |-> fk[2],
     ref_schema |-> fk[3],
     ref_table  |-> fk[4],
     ref_col    |-> fk[5]]

\* ------------------------------------------------------------------ migrate
\* One entry of the log: the statement or step op on table t, whether it
\* succeeded, the number of rows it carried and the statement sent (if any).
Entry(op, t, ok, n, stmt) == [op |-> op, t |-> t, ok |-> ok, n |-> n, stmt |-> stmt]
NoTable == <<"", "">>

\* Where control goes when a statement raises, as if the loop body caught it.
ErrorTargetNextTable == "for_table"
\* Where control goes when a statement raises: migrate() has no handler, the
\* exception ends the process.
ErrorTarget == "aborted"

\* The target database at the end of an aborted run, had the connection been
\* opened without autocommit: nothing was committed.
AtAbortRollback(db) == EmptyTarget
\* The target database at the end of an aborted run: autocommit is on, every
\* statement that succeeded is kept.
AtAbort(db) == db

\* The loop body with create_indexes called before copy_data.
AfterStepIndexesFirst(step) ==
    CASE step = "get_columns"         -> "get_primary_key"
      [] step = "get_primary_key"     -> "get_indexes"
      [] step = "get_indexes"         -> "get_foreign_keys"
      [] step = "get_foreign_keys"    -> "create_table"
      [] step = "create_table"        -> "create_indexes"
      [] step = "create_indexes"      -> "copy_data"
      [] step = "copy_data"           -> "create_foreign_keys"
      [] step = "create_foreign_keys" -> "for_table"
\* The order of the calls in the body of migrate()'s loop.
AfterStep(step) ==
    CASE step = "get_columns"         -> "get_primary_key"
      [] step = "get_primary_key"     -> "get_indexes"
      [] step = "get_indexes"         -> "get_foreign_keys"
      [] step = "get_foreign_keys"    -> "create_table"
      [] step = "create_table"        -> "copy_data"
      [] step = "copy_data"           -> "create_indexes"
      [] step = "create_indexes"      -> "create_foreign_keys"
      [] step = "create_foreign_keys" -> "for_table"

\* The copy loop ending on the first batch shorter than the batch size.
LoopEndsOnShortBatch(b, size) == Len(b) < size
\* if not batch: break
LoopEnds(b, size) == b = <<>>

CurT == tables[ti]
\* col_names of copy_data
col_names == [i \in 1..Len(cols) |-> cols[i].name]
\* The rows SELECT col_names FROM table delivers, as tuples in col_names order.
ResultSet(t) ==
    [i \in 1..srcdb.nrows |-> [j \in 1..Len(col_names) |-> SourceRows(t, srcdb.nrows)[i][col_names[j]]]]
\* pg.fetchmany(size) on a result set of which `done` rows were fetched.
FetchMany(rs, done, size) ==
    SubSeq(rs, done + 1, IF done + size < Len(rs) THEN done + size ELSE Len(rs))

\* A statement raises for a reason outside the program (connection lost, timeout).
Raise(op, t, e) ==
    /\ pc' = ErrorTarget
    /\ err' = e
    /\ log' = Append(log, Entry(op, t, FALSE, 0, <<>>))
\* A statement succeeded.
Logged(op, t, n, stmt) ==
    /\ err' = err
    /\ log' = Append(log, Entry(op, t, TRUE, n, stmt))

\* tables = get_tables(pg)
GetTables ==
    /\ pc = "get_tables"
    /\ \/ /\ tables' = get_tables(srcdb)
          /\ pc' = "for_table"
          /\ Logged("get_tables", NoTable, 0, <<>>)
          /\ tgt' = tgt
       \/ /\ Raise("get_tables", NoTable, "OperationalError")
          /\ tgt' = AtAbort(tgt)
          /\ tables' = tables
    /\ UNCHANGED <<BATCH_SIZE, srcdb, ti, cols, pk, indexes, fks, k, total, fetched,
                   batch, copied, call>>

\* for schema, table in tables:  the next table, or the end of the run.
ForTable ==
    /\ pc = "for_table"
    /\ IF ti + 1 > Len(tables)
       THEN /\ pc' = "done"
            /\ Logged("completed", NoTable, 0, <<>>)
            /\ ti' = ti
       ELSE /\ pc' = "get_columns"
            /\ ti' = ti + 1
            /\ Logged("process", tables[ti + 1], 0, <<>>)
    /\ UNCHANGED <<BATCH_SIZE, srcdb, tables, cols, pk, indexes, fks, k, total, fetched,
                   batch, copied, tgt, call>>

\* cols = get_columns(pg, schema, table)
GetColumns ==
    /\ pc = "get_columns"
    /\ \/ /\ cols' = get_columns(CurT)
          /\ pc' = AfterStep("get_columns")
          /\ Logged("get_columns", CurT, 0, <<>>)
          /\ tgt' = tgt
       \/ /\ Raise("get_columns", CurT, "OperationalError")
          /\ tgt' = AtAbort(tgt)
          /\ cols' = cols
    /\ UNCHANGED <<BATCH_SIZE, srcdb, tables, ti, pk, indexes, fks, k, total, fetched,
                   batch, copied, call>>

\* pk = get_primary_key(pg, schema, table)
GetPrimaryKey ==
    /\ pc = "get_primary_key"
    /\ \/ /\ pk' = get_primary_key(CurT)
          /\ pc' = AfterStep("get_primary_key")
          /\ Logged("get_primary_key", CurT, 0, <<>>)
          /\ tgt' = tgt
       \/ /\ Raise("get_primary_key", CurT, "OperationalError")
          /\ tgt' = AtAbort(tgt)
          /\ pk' = pk
    /\ UNCHANGED <<BATCH_SIZE, srcdb, tables, ti, cols, indexes, fks, k, total, fetched,
                   batch, copied, call>>

\* indexes = get_indexes(pg, schema, table)
GetIndexes ==
    /\ pc = "get_indexes"
    /\ \/ /\ indexes' \in get_indexes(CurT)
          /\ pc' = AfterStep("get_indexes")
          /\ Logged("get_indexes", CurT, 0, <<>>)
          /\ tgt' = tgt
       \/ /\ Raise("get_indexes", CurT, "OperationalError")
          /\ tgt' = AtAbort(tgt)
          /\ indexes' = indexes
    /\ UNCHANGED <<BATCH_SIZE, srcdb, tables, ti, cols, pk, fks, k, total, fetched,
                   batch, copied, call>>

\* fks = get_foreign_keys(pg, schema, table)
GetForeignKeys ==
    /\ pc = "get_foreign_keys"
    /\ \/ /\ fks' \in get_foreign_keys(srcdb, CurT)
          /\ pc' = AfterStep("get_foreign_keys")
          /\ Logged("get_foreign_keys", CurT, 0, <<>>)
          /\ tgt' = tgt
       \/ /\ Raise("get_foreign_keys", CurT, "OperationalError")
          /\ tgt' = AtAbort(tgt)
          /\ fks' = fks
    /\ UNCHANGED <<BATCH_SIZE, srcdb, tables, ti, cols, pk, indexes, k, total, fetched,
                   batch, copied, call>>

\* A statement sent to the target with outcome r: on success control goes to
\* next, on an error the exception leaves migrate().
SqlStep(op, t, r, n, stmt, next) ==
    IF r.err = ""
    THEN /\ pc' = next
         /\ tgt' = r.db
         /\ err' = err
         /\ log' = Append(log, Entry(op, t, TRUE, n, stmt))
    ELSE /\ pc' = ErrorTarget
         /\ tgt' = AtAbort(r.db)
         /\ err' = r.err
         /\ log' = Append(log, Entry(op, t, FALSE, n, stmt))
\* The same, when the statement is the last of its function: the return is logged.
SqlStepReturn(op, t, r, n, stmt, fn) ==
    IF r.err = ""
    THEN /\ pc' = AfterStep(fn)
         /\ tgt' = r.db
         /\ err' = err
         /\ log' = log \o <<Entry(op, t, TRUE, n, stmt), Entry("return " \o fn, t, TRUE, 0, <<>>)>>
    ELSE /\ pc' = ErrorTarget
         /\ tgt' = AtAbort(r.db)
         /\ err' = r.err
         /\ log' = Append(log, Entry(op, t, FALSE, n, stmt))

\* create_table: the guarded CREATE SCHEMA statement.
CreateSchema ==
    /\ pc = "create_table"
    /\ \/ SqlStep("create_schema", CurT, ExecCreateSchema(tgt, CurT[1]), 0, <<>>,
                  "create_table_sql")
       \/ /\ Raise("create_schema", CurT, "OperationalError")
          /\ tgt' = AtAbort(tgt)
    /\ UNCHANGED <<BATCH_SIZE, srcdb, tables, ti, cols, pk, indexes, fks, k, total,
                   fetched, batch, copied, call>>

\* create_table: the guarded CREATE TABLE statement.
CreateTable ==
    /\ pc = "create_table_sql"
    /\ LET stmt == CreateTableSql(CurT[1], CurT[2], cols, pk) IN
       \/ SqlStepReturn("create_table", CurT, ExecCreateTable(tgt, stmt), 0, <<stmt>>,
                        "create_table")
       \/ /\ Raise("create_table", CurT, "OperationalError")
          /\ tgt' = AtAbort(tgt)
    /\ k' = 1
    /\ UNCHANGED <<BATCH_SIZE, srcdb, tables, ti, cols, pk, indexes, fks, total,
                   fetched, batch, copied, call>>

\* copy_data: SELECT COUNT(*) and fetchone.
CopyCount ==
    /\ pc = "copy_data"
    /\ \/ /\ total' = srcdb.nrows
          /\ pc' = "copy_data_select"
          /\ Logged("count", CurT, srcdb.nrows, <<>>)
          /\ tgt' = tgt
       \/ /\ Raise("count", CurT, "OperationalError")
          /\ tgt' = AtAbort(tgt)
          /\ total' = total
    /\ UNCHANGED <<BATCH_SIZE, srcdb, tables, ti, cols, pk, indexes, fks, k, fetched,
                   batch, copied, call>>

\* copy_data: the SELECT of the rows opens the result set; copied = 0.
CopySelect ==
    /\ pc = "copy_data_select"
    /\ \/ /\ fetched' = 0
          /\ copied' = 0
          /\ pc' = "fetchmany"
          /\ Logged("select", CurT, 0, <<>>)
          /\ tgt' = tgt
       \/ /\ Raise("select", CurT, "OperationalError")
          /\ tgt' = AtAbort(tgt)
          /\ UNCHANGED <<fetched, copied>>
    /\ UNCHANGED <<BATCH_SIZE, srcdb, tables, ti, cols, pk, indexes, fks, k, total,
                   batch, call>>

\* copy_data: batch = pg.fetchmany(BATCH_SIZE); if not batch: break
CopyFetch ==
    /\ pc = "fetchmany"
    /\ \/ LET b == FetchMany(ResultSet(CurT), fetched, BATCH_SIZE) IN
          /\ batch' = b
          /\ fetched' = fetched + Len(b)
          /\ tgt' = tgt
          /\ err' = err
          /\ IF LoopEnds(b, BATCH_SIZE)
             THEN /\ pc' = AfterStep("copy_data")
                  /\ log' = log \o <<Entry("fetchmany", CurT, TRUE, Len(b), <<>>),
                                     Entry("return copy_data", CurT, TRUE, 0, <<>>)>>
             ELSE /\ pc' = "executemany"
                  /\ log' = Append(log, Entry("fetchmany", CurT, TRUE, Len(b), <<>>))
       \/ /\ Raise("fetchmany", CurT, "OperationalError")
          /\ tgt' = AtAbort(tgt)
          /\ UNCHANGED <<batch, fetched>>
    /\ k' = 1
    /\ UNCHANGED <<BATCH_SIZE, srcdb, tables, ti, cols, pk, indexes, fks, total,
                   copied, call>>

\* copy_data: sql.executemany(INSERT .., batch); copied += len(batch)
CopyInsert ==
    /\ pc = "executemany"
    /\ \/ LET r == ExecInsertMany(tgt, CurT, col_names, batch) IN
          /\ SqlStep("executemany", CurT, r,
                     IF CurT \in tgt.created
                     THEN Len(r.db.rows[CurT]) - Len(tgt.rows[CurT]) ELSE 0,
                     <<>>, "fetchmany")
          /\ copied' = IF r.err = "" THEN copied + Len(batch) ELSE copied
       \/ \E j \in 0..(Len(batch) - 1) :
            LET r == ExecInsertMany(tgt, CurT, col_names, SubSeq(batch, 1, j)) IN
            /\ r.err = ""
            /\ pc' = ErrorTarget
            /\ err' = "OperationalError"
            /\ log' = Append(log, Entry("executemany", CurT, FALSE, j, <<>>))
            /\ tgt' = AtAbort(r.db)
            /\ copied' = copied
    /\ UNCHANGED <<BATCH_SIZE, srcdb, tables, ti, cols, pk, indexes, fks, k, total,
                   fetched, batch, call>>

\* create_indexes: the statement of the next index, or the return after the last.
CreateIndexes ==
    /\ pc = "create_indexes"
    /\ IF k > Len(indexes)
       THEN /\ pc' = AfterStep("create_indexes")
            /\ k' = 1
            /\ tgt' = tgt
            /\ Logged("return create_indexes", CurT, 0, <<>>)
       ELSE LET stmt == IndexSql(CurT[1], CurT[2], indexes[k][1], indexes[k][2]) IN
            \/ /\ SqlStep("create_index", CurT, ExecCreateIndex(tgt, stmt), 0, <<stmt>>,
                          "create_indexes")
               /\ k' = k + 1
            \/ /\ Raise("create_index", CurT, "OperationalError")
               /\ tgt' = AtAbort(tgt)
               /\ k' = k
    /\ UNCHANGED <<BATCH_SIZE, srcdb, tables, ti, cols, pk, indexes, fks, total,
                   fetched, batch, copied, call>>

\* create_foreign_keys: the statement of the next foreign key, or the return.
CreateForeignKeys ==
    /\ pc = "create_foreign_keys"
    /\ IF k > Len(fks)
       THEN /\ pc' = AfterStep("create_foreign_keys")
            /\ k' = 1
            /\ tgt' = tgt
            /\ Logged("return create_foreign_keys", CurT, 0, <<>>)
       ELSE LET stmt == FkSql(CurT[1], CurT[2], fks[k]) IN
            \/ /\ SqlStep("add_fk", CurT, ExecAddForeignKey(tgt, stmt), 0, <<stmt>>,
                          "create_foreign_keys")
               /\ k' = k + 1
            \/ /\ Raise("add_fk", CurT, "OperationalError")
               /\ tgt' = AtAbort(tgt)
               /\ k' = k
    /\ UNCHANGED <<BATCH_SIZE, srcdb, tables, ti, cols, pk, indexes, fks, total,
                   fetched, batch, copied, call>>

\* The state before migrate() runs: a configuration, a source database and an
\* empty target database.
Init ==
    /\ BATCH_SIZE \in 1..MaxBatch
    /\ srcdb \in {db \in SourceDatabases : WellFormed(db)}
    /\ pc = "get_tables"
    /\ tables = <<>>
    /\ ti = 0
    /\ cols = <<>>
    /\ pk = <<>>
    /\ indexes = <<>>
    /\ fks = <<>>
    /\ k = 1
    /\ total = 0
    /\ fetched = 0
    /\ batch = <<>>
    /\ copied = 0
    /\ tgt = EmptyTarget
    /\ log = <<>>
    /\ err = ""
    /\ call = <<>>

Next ==
    \/ GetTables
    \/ ForTable
    \/ GetColumns
    \/ GetPrimaryKey
    \/ GetIndexes
    \/ GetForeignKeys
    \/ CreateSchema
    \/ CreateTable
    \/ CopyCount
    \/ CopySelect
    \/ CopyFetch
    \/ CopyInsert
    \/ CreateIndexes
    \/ CreateForeignKeys

Spec == Init /\ [][Next]_vars

\* ------------------------------------------------- map_pg_type on its own
\* The column descriptors map_pg_type is applied to: a length for character
\* types; for numeric ones a precision and a scale (with scale <= precision),
\* or neither when the column is declared without them.
Optional(S) == {None} \cup {Some(v) : v \in S}
MapInput(t, l, p, sc, b) ==
    [pg_type |-> t, length |-> l, precision |-> p, scale |-> sc, is_serial |-> b, ret |-> ""]
NumericTypes == {t \in PgTypes : LowerType(t) \in {"numeric", "decimal"}}
MapInputs ==
    {MapInput(t, None, None, None, FALSE) : t \in PgTypes}
    \cup {MapInput(t, None, None, None, TRUE) : t \in {"integer", "bigint", "smallint"}}
    \cup {MapInput("character varying", l, None, None, FALSE) :
            l \in Optional({0, 1, 255, 4000, 4001})}
    \cup {a \in {MapInput(t, None, p, sc, FALSE) :
                    t \in NumericTypes,
                    p \in Optional(1..MaxPrecision),
                    sc \in Optional(0..MaxPrecision)} :
            /\ (a.precision = None) <=> (a.scale = None)
            /\ a.precision # None => a.scale[1] <= a.precision[1]}

Idle ==
    /\ BATCH_SIZE = 1
    /\ srcdb = [tables |-> {}, fks |-> {}, nrows |-> 0]
    /\ tables = <<>>
    /\ ti = 0
    /\ cols = <<>>
    /\ pk = <<>>
    /\ indexes = <<>>
    /\ fks = <<>>
    /\ k = 1
    /\ total = 0
    /\ fetched = 0
    /\ batch = <<>>
    /\ copied = 0
    /\ log = <<>>
    /\ err = ""

InitMap ==
    /\ Idle
    /\ tgt = EmptyTarget
    /\ pc = "call"
    /\ call \in MapInputs

\* sql_type = map_pg_type(c["data_type"], c["length"], c["precision"], c["scale"], c["is_serial"])
MapCall ==
    /\ pc = "call"
    /\ pc' = "returned"
    /\ call' = [call EXCEPT !.ret = map_pg_type(call.pg_type, call.length, call.precision,
                                                call.scale, call.is_serial)]
    /\ UNCHANGED <<BATCH_SIZE, srcdb, tables, ti, cols, pk, indexes, fks, k, total,
                   fetched, batch, copied, tgt, log, err>>

NextMap == MapCall

SpecMap == InitMap /\ [][NextMap]_vars

\* --------------------------------- create_table / create_indexes on their own
\* The subsets of a set, each in every order.
SubsetOrderings(S) == UNION {Orderings(T) : T \in SUBSET S}

\* One descriptor set (a table of the source, its columns, its primary key or
\* none, some of its pg_indexes rows) and an empty target database.
InitDDL ==
    /\ Idle
    /\ tgt = EmptyTarget
    /\ pc = "ddl"
    /\ \E t \in AllTables, pkcols \in {<<>>, <<"id">>} :
       \E idxs \in SubsetOrderings({<<ix.indexname, IndexDef(t, ix)>> : ix \in SourceIndexes(t)}) :
          call = [schema |-> t[1], table |-> t[2], columns |-> get_columns(t),
                  pk |-> pkcols, indexes |-> idxs, n_table |-> 0, n_indexes |-> 0]

\* create_table(sql, schema, table, columns, pk), called by a caller that
\* catches what it raises.
CallCreateTable ==
    /\ pc = "ddl"
    /\ call.n_table < MaxCalls
    /\ LET r == create_table(tgt, call.schema, call.table, call.columns, call.pk) IN
       /\ tgt' = r.db
       /\ err' = r.err
       /\ log' = Append(log, Entry("create_table", <<call.schema, call.table>>,
                                   r.err = "", 0, r.sent))
    /\ call' = [call EXCEPT !.n_table = @ + 1]
    /\ UNCHANGED <<BATCH_SIZE, srcdb, pc, tables, ti, cols, pk, indexes, fks, k, total,
                   fetched, batch, copied>>

\* create_indexes(sql, schema, table, indexes), likewise.
CallCreateIndexes ==
    /\ pc = "ddl"
    /\ call.n_indexes < MaxCalls
    /\ LET r == create_indexes(tgt, call.schema, call.table, call.indexes) IN
       /\ tgt' = r.db
       /\ err' = r.err
       /\ log' = Append(log, Entry("create_indexes", <<call.schema, call.table>>,
                                   r.err = "", 0, r.sent))
    /\ call' = [call EXCEPT !.n_indexes = @ + 1]
    /\ UNCHANGED <<BATCH_SIZE, srcdb, pc, tables, ti, cols, pk, indexes, fks, k, total,
                   fetched, batch, copied>>

NextDDL == CallCreateTable \/ CallCreateIndexes

SpecDDL == InitDDL /\ [][NextDDL]_vars

\* ================================================================== claims
\* The position of a log entry in the per-table sequence of migrate():
\* 0 discovery and metadata, 1 create_table, 2 copy_data, 3 create_indexes,
\* 4 create_foreign_keys; -1 for the entries that belong to no table.
Phase(op) ==
    CASE op \in {"process", "get_columns", "get_primary_key", "get_indexes",
                 "get_foreign_keys"} -> 0
      [] op \in {"create_schema", "create_table", "return create_table"} -> 1
      [] op \in {"count", "select", "fetchmany", "executemany", "return copy_data"} -> 2
      [] op \in {"create_index", "return create_indexes"} -> 3
      [] op \in {"add_fk", "return create_foreign_keys"} -> 4
      [] OTHER -> -1
\* The entry that marks the end of a phase (the table entering the state of
\* that name: DISCOVERED, TABLE_CREATED, DATA_COPIED, INDEXES_CREATED,
\* FOREIGN_KEYS_CREATED).
PhaseEnd(p) ==
    CASE p = 0 -> "process"
      [] p = 1 -> "return create_table"
      [] p = 2 -> "return copy_data"
      [] p = 3 -> "return create_indexes"
      [] p = 4 -> "return create_foreign_keys"
Returns == {"return create_table", "return copy_data", "return create_indexes",
            "return create_foreign_keys"}
\* The positions of the log that hold op on table t.
At(op, t) == {i \in 1..Len(log) : log[i].op = op /\ log[i].t = t}
IsProcess(e) == e.op = "process"
\* The tables migrate() has begun, in the order it began them.
Processed == SelectSeq(log, IsProcess)
\* The base tables of the configured schemas in the source.
Listed == {t \in srcdb.tables : t[1] \in SCHEMAS}
Ceil(n, d) == (n + d - 1) \div d

\* C1: for every table the steps happen in the order create_table, copy_data,
\* create_indexes, create_foreign_keys: whatever is sent for a table belongs to
\* the same or a later phase than everything sent for it before (no phase is
\* revisited), a phase begins only after the previous one has returned (none
\* is skipped), each function returns at most once per table, and a bulk
\* insert into a table is sent only after that table's CREATE TABLE succeeded.
C1_StepOrder ==
    \A i \in 1..Len(log) :
        LET e == log[i]
            p == Phase(e.op)
        IN  p >= 0 =>
            /\ \A j \in 1..(i - 1) : log[j].t = e.t => Phase(log[j].op) <= p
            /\ e.op # "process" =>
                  \E j \in 1..(i - 1) :
                      /\ log[j].t = e.t
                      /\ log[j].op = PhaseEnd(IF p = 0 THEN 0 ELSE p - 1)
            /\ e.op \in Returns \cup {"process"} => At(e.op, e.t) = {i}
            /\ e.op = "executemany" =>
                  \E j \in 1..(i - 1) :
                      log[j].t = e.t /\ log[j].op = "create_table" /\ log[j].ok
\* A table went through all four steps with rows, indexes and a foreign key.
C1_Witness ==
    \E t \in Universe :
        /\ At("return create_foreign_keys", t) # {}
        /\ \E i \in At("executemany", t) : log[i].ok
        /\ \E i \in At("create_index", t) : log[i].ok
        /\ \E i \in At("add_fk", t) : log[i].ok

\* C2: the run stops at the first failure: a statement that failed is the last
\* entry of the log (nothing is sent for the same or a later table after it),
\* the run is then aborted with the error, and the completed outcome is
\* reached only by runs in which nothing failed.
C2_StopsAtFirstFailure ==
    /\ \A i \in 1..Len(log) : ~log[i].ok => i = Len(log)
    /\ (\E i \in 1..Len(log) : ~log[i].ok) => (pc = "aborted" /\ err # "")
    /\ err # "" => (pc = "aborted" /\ log # <<>> /\ ~log[Len(log)].ok)
    /\ pc = "done" <=> (log # <<>> /\ log[Len(log)].op = "completed")
\* A run aborted inside its second table while a third one was still to come.
C2_Witness ==
    /\ pc = "aborted"
    /\ ti = 2
    /\ Len(tables) = 3
    /\ At("return create_table", tables[2]) # {}

\* C3: batch accounting of copy_data.  Every batch handed to executemany holds
\* between 1 and BATCH_SIZE rows; the loop fetches at most ceil(N/B) + 1
\* times; and when copy_data returns it has made exactly ceil(N/B) executemany
\* calls for the table and copied equals the count query's result N.
C3_BatchAccounting ==
    /\ pc = "executemany" => (Len(batch) >= 1 /\ Len(batch) <= BATCH_SIZE)
    /\ \A i \in 1..Len(log) :
          (log[i].op = "executemany" /\ log[i].ok) => (log[i].n >= 1 /\ log[i].n <= BATCH_SIZE)
    /\ \A t \in Universe :
          Cardinality(At("fetchmany", t)) <= Ceil(srcdb.nrows, BATCH_SIZE) + 1
    /\ (log # <<>> /\ log[Len(log)].op = "return copy_data") =>
          /\ Cardinality(At("executemany", CurT)) = Ceil(srcdb.nrows, BATCH_SIZE)
          /\ total = srcdb.nrows
          /\ copied = total
          /\ tgt.rows[CurT] = SourceRows(CurT, srcdb.nrows)
\* copy_data returned after a copy whose last batch was a partial one.
C3_Witness ==
    /\ log # <<>>
    /\ log[Len(log)].op = "return copy_data"
    /\ srcdb.nrows = 4
    /\ BATCH_SIZE = 3
    /\ copied = 4
    /\ Cardinality(At("executemany", CurT)) = 2

\* A foreign-key statement of table t that references another table listed after t.
ForwardKey(t, stmt) ==
    LET ref == <<stmt.ref_schema, stmt.ref_table>>
    IN  ref # t /\ ListedBefore(t, ref)
\* C4: a foreign key of table B that references another table A listed after
\* B (schema, then name) is sent while A does not exist in the target and
\* fails there; B therefore never completes its foreign-key step, A is never
\* created, and nothing reorders the tables or defers the statement.
C4_ForwardKeyFails ==
    /\ \A i \in 1..Len(log) :
          (log[i].op = "add_fk" /\ log[i].stmt # <<>> /\ ForwardKey(log[i].t, log[i].stmt[1])) =>
              /\ ~log[i].ok
              /\ err = "1767 references invalid table"
              /\ <<log[i].stmt[1].ref_schema, log[i].stmt[1].ref_table>> \notin tgt.created
    /\ \A f \in srcdb.fks :
          (f.ref # f.table /\ ListedBefore(f.table, f.ref)) =>
              /\ At("return create_foreign_keys", f.table) = {}
              /\ f.ref \notin tgt.created
\* The foreign-key step of a table failed on a table listed later, after
\* another foreign key of the same table had been added.
C4_Witness ==
    /\ err = "1767 references invalid table"
    /\ log[Len(log)].op = "add_fk"
    /\ ForwardKey(CurT, log[Len(log)].stmt[1])
    /\ \E i \in At("add_fk", CurT) : log[i].ok

\* The run ended in a bulk insert that failed.
FailedInsert ==
    log # <<>> /\ log[Len(log)].op = "executemany" /\ ~log[Len(log)].ok
\* C6: when a bulk insert of a table's copy fails, the rows of the batches
\* before it are all in the target table, in source order; the table exists
\* with fewer rows than the source and has no index and no foreign key.
C6_PartialCopyStays ==
    FailedInsert =>
        /\ CurT \in tgt.created
        /\ Len(tgt.rows[CurT]) >= copied
        /\ Len(tgt.rows[CurT]) < srcdb.nrows
        /\ SubSeq(tgt.rows[CurT], 1, copied) = SubSeq(SourceRows(CurT, srcdb.nrows), 1, copied)
        /\ copied = BATCH_SIZE * Cardinality({i \in At("executemany", CurT) : log[i].ok})
        /\ \A ix \in tgt.indexes : ix.t # CurT
        /\ \A f \in tgt.fks : f.t # CurT
\* The third bulk insert of a table failed after two batches had been copied.
C6_Witness ==
    /\ FailedInsert
    /\ Cardinality(At("executemany", CurT)) = 3
    /\ copied = 2 * BATCH_SIZE
    /\ copied > 0

\* The positions up to i at which a table was begun, and the last of them.
BegunBefore(i) == {j \in 1..i : log[j].op = "process"}
LastBegun(i) == CHOOSE j \in BegunBefore(i) : \A m \in BegunBefore(i) : m <= j
\* C7: tables are processed one at a time in the listing order (schema, then
\* name), each once: the tables begun so far are the first ones of the
\* listing, every entry of the log belongs to the table begun last, a table is
\* begun only after the one before it returned from create_foreign_keys, and a
\* completed run has begun every listed table.
C7_Sequential ==
    /\ \A i, j \in 1..Len(Processed) :
          i < j => ListedBefore(Processed[i].t, Processed[j].t)
    /\ \A i \in 1..Len(Processed) : Processed[i].t \in Listed
    /\ \A t \in Listed :
          At("process", t) = {} =>
              \A i \in 1..Len(Processed) : ListedBefore(Processed[i].t, t)
    /\ \A i \in 1..Len(log) :
          Phase(log[i].op) >= 0 =>
              /\ BegunBefore(i) # {}
              /\ log[LastBegun(i)].t = log[i].t
    /\ \A i \in 1..Len(log) :
          (log[i].op = "process" /\ BegunBefore(i - 1) # {}) =>
              \E m \in LastBegun(i - 1)..(i - 1) :
                  /\ log[m].op = "return create_foreign_keys"
                  /\ log[m].t = log[LastBegun(i - 1)].t
    /\ pc = "done" => \A t \in Listed : Cardinality(At("process", t)) = 1
\* A run completed three tables of two schemas.
C7_Witness ==
    /\ pc = "done"
    /\ Len(Processed) = 3
    /\ Processed[1].t = TZlog
    /\ Processed[3].t = TUsers

\* The source database and the CREATE TABLE text of the end-to-end scenario.
UsersScenario == srcdb = [tables |-> {TUsers}, fks |-> {}, nrows |-> 3]
UsersDDL ==
    "CREATE TABLE [public].[users]([id] INT IDENTITY(1,1) NOT NULL, " \o
    "[email] NVARCHAR(255) NOT NULL, [created_at] DATETIME2 NULL, " \o
    "CONSTRAINT [PK_public_users] PRIMARY KEY ([id]))"
\* C8: the end-to-end scenario.  With the single source table public.users
\* (id serial primary key, email varchar(255) not null, created_at timestamp)
\* of 3 rows, a run that no outside failure interrupts creates the table with
\* the stated columns and constraint and ends with the 3 source rows in it.
C8_EndToEnd ==
    (UsersScenario /\ pc \in {"done", "aborted"} /\ err # "OperationalError") =>
        /\ pc = "done"
        /\ \E i \in At("create_table", TUsers) :
              log[i].ok /\ CreateTableText(log[i].stmt[1]) = UsersDDL
        /\ TUsers \in tgt.created
        /\ Len(tgt.rows[TUsers]) = 3
        /\ tgt.rows[TUsers] = SourceRows(TUsers, 3)
\* The part of the scenario the program does deliver: the table's DDL.
C8_TableDDL ==
    \A i \in At("create_table", TUsers) :
        log[i].stmt # <<>> => CreateTableText(log[i].stmt[1]) = UsersDDL

\* C9: decimal defaulting.  For a numeric or decimal column that is not
\* autoincrement the result is DECIMAL(p,s), p the precision if present and 18
\* if absent, s the scale if present (0 included) and 4 only if absent.
C9_DecimalDefaulting ==
    (pc = "returned" /\ LowerType(call.pg_type) \in {"numeric", "decimal"}
       /\ ~call.is_serial) =>
        call.ret = DecimalText(IF call.precision = None THEN 18 ELSE call.precision[1],
                               IF call.scale = None THEN 4 ELSE call.scale[1])

\* The table and every index of the descriptor set exist in the target.
ObjectsExist ==
    /\ <<call.schema, call.table>> \in tgt.created
    /\ \A i \in 1..Len(call.indexes) :
          IndexSql(call.schema, call.table, call.indexes[i][1], call.indexes[i][2]).index_name
              \in SysIndexNames(tgt)
\* C5: table and index creation are idempotent.  Once the table and every
\* index of the descriptor set exist in the target, a further call of
\* create_table or create_indexes with the same descriptors raises nothing
\* and leaves the target's schema as it was.
C5_Idempotent ==
    [][(pc = "ddl" /\ ObjectsExist) => (err' = "" /\ SchemaOf(tgt') = SchemaOf(tgt))]_vars
\* Both functions were called twice, the second time on existing objects.
C5_Witness ==
    /\ pc = "ddl"
    /\ ObjectsExist
    /\ Len(call.indexes) >= 2
    /\ call.pk # <<>>
    /\ call.n_table = 2
    /\ call.n_indexes = 2
    /\ Len(log) = 4
    /\ log[1].op = "create_table"
    /\ log[2].op = "create_indexes"
    /\ log[3].op = "create_table"
    /\ err = ""

\* C10: create_indexes emits CREATE UNIQUE INDEX exactly for the unique
\* indexes of the source: every statement of a call that succeeded carries the
\* UNIQUE keyword if and only if the source index it was built from is unique.
C10_UniqueIffSourceUnique ==
    \A i \in 1..Len(log) :
        (log[i].op = "create_indexes" /\ log[i].ok) =>
            \A n \in 1..Len(log[i].stmt) :
                \A ix \in SourceIndexes(log[i].t) :
                    log[i].stmt[n].index_name =
                        "IX_" \o log[i].t[1] \o "_" \o log[i].t[2] \o "_" \o ix.indexname
                    => (log[i].stmt[n].unique = "UNIQUE" <=> ix.unique)

====
